---- MODULE Spec2Model ----
(***************************************************************************)
(* dircat.py: walk a directory, prune excluded and hidden directories,     *)
(* collect the files whose name matches an include pattern, sort them by   *)
(* relative path and print each one as a Markdown fenced block.            *)
(*                                                                         *)
(* Text is a sequence of characters (one-character strings); a file or     *)
(* directory name is such a sequence and a path is a sequence of names.    *)
(* Fixed pieces of output ("### ", the fence, "---", a language tag) are   *)
(* single elements of the output stream.  The host is POSIX: str(path)     *)
(* joins with "/", fnmatch is case-sensitive.                               *)
(***************************************************************************)
EXTENDS Integers, Sequences, FiniteSets, TLC

VARIABLES
    tree,            \* the files below the scan root (the filesystem)
    argv,            \* [directory, patterns, exclude]: the parsed command line
    pc,              \* "main", "walk", "emit", "done" (exit 0), "exit" (sys.exit(1))
    include_patterns,\* process_directory's include_patterns
    stack,           \* os.walk: directories still to visit, relative to base_path
    files_found,     \* process_directory's files_found
    i,               \* number of entries of files_found already emitted
    stdout,
    stderr,
    exitCode,        \* -1 while the process runs
    blockStart,      \* blockStart[k]: Len(stdout) when the loop reached entry k
    run,             \* number of the current invocation
    prevOut          \* stdout of the previous invocation

vars == <<tree, argv, pc, include_patterns, stack, files_found, i, stdout,
          stderr, exitCode, blockStart, run, prevOut>>

\* largest number of files in the scanned tree
MaxFiles == 3
\* number of invocations on the same tree and arguments
MaxRuns == 2

----------------------------------------------------------------------------
\* Characters and strings

NL == "\n"

\* the three backquotes of a Markdown fence, one element of the output
Fence == "<fence>"

\* code point of a character (Python compares str by code point)
Ord(c) ==
    CASE c = NL -> 10 [] c = " " -> 32 [] c = "'" -> 39 [] c = "*" -> 42
      [] c = "," -> 44 [] c = "-" -> 45 [] c = "." -> 46 [] c = "/" -> 47
      [] c = ":" -> 58 [] c = "?" -> 63 [] c = "R" -> 82 [] c = "a" -> 97
      [] c = "b" -> 98 [] c = "c" -> 99 [] c = "f" -> 102 [] c = "g" -> 103
      [] c = "h" -> 104 [] c = "m" -> 109 [] c = "n" -> 110 [] c = "x" -> 120
      [] c = "y" -> 121 [] c = "~" -> 126

\* str.lower() on one character
Lower(c) ==
    CASE c = "A" -> "a" [] c = "B" -> "b" [] c = "C" -> "c" [] c = "D" -> "d"
      [] c = "E" -> "e" [] c = "F" -> "f" [] c = "G" -> "g" [] c = "H" -> "h"
      [] c = "I" -> "i" [] c = "J" -> "j" [] c = "K" -> "k" [] c = "L" -> "l"
      [] c = "M" -> "m" [] c = "N" -> "n" [] c = "O" -> "o" [] c = "P" -> "p"
      [] c = "Q" -> "q" [] c = "R" -> "r" [] c = "S" -> "s" [] c = "T" -> "t"
      [] c = "U" -> "u" [] c = "V" -> "v" [] c = "W" -> "w" [] c = "X" -> "x"
      [] c = "Y" -> "y" [] c = "Z" -> "z" [] OTHER -> c

\* the characters of s as one string
RECURSIVE Join(_)
Join(s) == IF s = <<>> THEN "" ELSE Head(s) \o Join(Tail(s))

RECURSIVE LowerStr(_)
LowerStr(s) == IF s = <<>> THEN <<>> ELSE <<Lower(Head(s))>> \o LowerStr(Tail(s))

\* str < str, and tuple < tuple: the first difference decides, a proper prefix is less
RECURSIVE StrLess(_, _)
StrLess(s, t) ==
    IF t = <<>> THEN FALSE
    ELSE IF s = <<>> THEN TRUE
    ELSE IF Head(s) # Head(t) THEN Ord(Head(s)) < Ord(Head(t))
    ELSE StrLess(Tail(s), Tail(t))

endswith(s, c) == s # <<>> /\ s[Len(s)] = c

startswith(s, c) == s # <<>> /\ s[1] = c

Whitespace == {" ", "\t", NL}

\* str.strip()
RECURSIVE lstrip(_)
lstrip(s) == IF s # <<>> /\ Head(s) \in Whitespace THEN lstrip(Tail(s)) ELSE s

RECURSIVE rstrip(_)
rstrip(s) ==
    IF s # <<>> /\ s[Len(s)] \in Whitespace
    THEN rstrip(SubSeq(s, 1, Len(s) - 1)) ELSE s

strip(s) == rstrip(lstrip(s))

\* s.split(sep): the pieces between the separators, empty pieces kept
RECURSIVE split(_, _)
split(s, sep) ==
    IF \E k \in 1..Len(s) : s[k] = sep
    THEN LET k == CHOOSE j \in 1..Len(s) :
                      s[j] = sep /\ \A h \in 1..(j - 1) : s[h] # sep
         IN <<SubSeq(s, 1, k - 1)>> \o split(SubSeq(s, k + 1, Len(s)), sep)
    ELSE <<s>>

\* fnmatch.fnmatch(text, pattern): "*" is any run of characters ("/" included),
\* "?" any one character, anything else itself; the whole text must match.
\* (The patterns of this model hold no "[", so character classes do not arise.)
RECURSIVE fnmatch(_, _)
fnmatch(text, pattern) ==
    IF pattern = <<>> THEN text = <<>>
    ELSE IF Head(pattern) = "*"
         THEN \/ fnmatch(text, Tail(pattern))
              \/ text # <<>> /\ fnmatch(Tail(text), pattern)
    ELSE /\ text # <<>>
         /\ Head(pattern) = "?" \/ Head(pattern) = Head(text)
         /\ fnmatch(Tail(text), Tail(pattern))

matches_any(text, patterns) ==
    \E k \in 1..Len(patterns) : fnmatch(text, patterns[k])

----------------------------------------------------------------------------
\* Paths

\* str(PurePosixPath): the names joined by "/"
RECURSIVE StrPath(_)
StrPath(p) ==
    IF p = <<>> THEN <<>>
    ELSE IF Len(p) = 1 THEN p[1]
    ELSE p[1] \o <<"/">> \o StrPath(Tail(p))

\* faulty variant of PathLess: the paths compared as whole strings
PathLessAsStr(p, q) == StrLess(StrPath(p), StrPath(q))

\* PurePath.__lt__: the tuples of parts compared, each part as a string
RECURSIVE PathLess(_, _)
PathLess(p, q) ==
    IF q = <<>> THEN FALSE
    ELSE IF p = <<>> THEN TRUE
    ELSE IF Head(p) # Head(q) THEN StrLess(Head(p), Head(q))
    ELSE PathLess(Tail(p), Tail(q))

\* PurePath.suffix: the last name from its last "." on, unless that "." is
\* the first or the last character of the name
suffix(p) ==
    LET name == p[Len(p)]
        dots == {k \in 1..Len(name) : name[k] = "."}
    IN  IF dots = {} THEN <<>>
        ELSE LET k == CHOOSE d \in dots : \A e \in dots : e <= d
             IN IF 1 < k /\ k < Len(name) THEN SubSeq(name, k, Len(name)) ELSE <<>>

ext_map ==
    (".py" :> "python") @@ (".js" :> "javascript") @@ (".ts" :> "typescript") @@
    (".jsx" :> "jsx") @@ (".tsx" :> "tsx") @@ (".java" :> "java") @@ (".c" :> "c") @@
    (".cpp" :> "cpp") @@ (".cs" :> "csharp") @@ (".php" :> "php") @@ (".rb" :> "ruby") @@
    (".go" :> "go") @@ (".rs" :> "rust") @@ (".kt" :> "kotlin") @@ (".swift" :> "swift") @@
    (".m" :> "objectivec") @@ (".scala" :> "scala") @@ (".sh" :> "bash") @@
    (".bash" :> "bash") @@ (".zsh" :> "zsh") @@ (".fish" :> "fish") @@
    (".ps1" :> "powershell") @@ (".r" :> "r") @@ (".R" :> "r") @@ (".sql" :> "sql") @@
    (".html" :> "html") @@ (".htm" :> "html") @@ (".xml" :> "xml") @@ (".css" :> "css") @@
    (".scss" :> "scss") @@ (".sass" :> "sass") @@ (".less" :> "less") @@
    (".json" :> "json") @@ (".yaml" :> "yaml") @@ (".yml" :> "yaml") @@
    (".toml" :> "toml") @@ (".ini" :> "ini") @@ (".cfg" :> "ini") @@ (".conf" :> "conf") @@
    (".md" :> "markdown") @@ (".markdown" :> "markdown") @@ (".rst" :> "rst") @@
    (".tex" :> "latex")

get_language_hint(filename) ==
    LET ext == Join(LowerStr(suffix(filename)))
    IN IF ext \in DOMAIN ext_map THEN ext_map[ext] ELSE ""

----------------------------------------------------------------------------
\* The machine: a home directory /h, a regular file /f, nothing else at the top

HomeDir == <<"/", "h">>

\* os.path.expanduser: a leading "~" (alone or before "/") becomes the home directory
expanduser(path) ==
    IF startswith(path, "~") /\ (Len(path) = 1 \/ path[2] = "/")
    THEN HomeDir \o Tail(path) ELSE path

\* os.path.isdir
isdir(path) == path = HomeDir

\* Path(directory).resolve(), as the names below "/"
resolve(directory) == Tail(split(expanduser(directory), "/"))

\* The files that may lie below the scan root: path relative to the root (as
\* names), content, and whether open() succeeds on it.
Universe ==
    { [rel |-> << <<"a", ".", "c">> >>,                 content |-> <<"x", NL>>,      readable |-> TRUE],
      [rel |-> << <<"a">>, <<"x", ".", "c">> >>,        content |-> <<"x">>,          readable |-> FALSE],
      [rel |-> << <<"a", "-", "b">>, <<"x", ".", "c">> >>, content |-> <<"x">>,       readable |-> TRUE],
      [rel |-> << <<".", "g">>, <<"x", ".", "c">> >>,   content |-> <<"x", NL>>,      readable |-> TRUE],
      [rel |-> << <<"a">>, <<"n">>, <<"m">> >>,         content |-> <<>>,             readable |-> TRUE],
      [rel |-> << <<"n">>, <<"x", ".", "c">> >>,        content |-> <<"x">>,          readable |-> FALSE],
      [rel |-> << <<".", "h", ".", "c">> >>,            content |-> <<NL>>,           readable |-> TRUE],
      [rel |-> << <<"b", ".", "R">> >>,                 content |-> <<"x", NL, "y">>, readable |-> TRUE] }

Trees == {t \in SUBSET Universe : Cardinality(t) <= MaxFiles}

\* the directory argument: "~", a missing path, a regular file
Directories == { <<"~">>, <<"/", "m">>, <<"/", "f">> }

\* the patterns argument: " ,*.c, ?.R", "*", " , ", ""
PatternArgs ==
    { <<" ", ",", "*", ".", "c", ",", " ", "?", ".", "R">>,
      <<"*">>,
      <<" ", ",", " ">>,
      <<>> }

\* the --exclude lists: none, n, a/n, ./a, x.c, a/x*, and n with a/x*
ExcludeArgs ==
    { <<>>,
      << <<"n">> >>,
      << <<"a", "/", "n">> >>,
      << <<".", "/", "a">> >>,
      << <<"x", ".", "c">> >>,
      << <<"a", "/", "x", "*">> >>,
      << <<"n">>, <<"a", "/", "x", "*">> >> }

\* every order in which a directory's entries may be listed
Perms(S) ==
    {s \in [1..Cardinality(S) -> S] : \A a, b \in 1..Cardinality(S) : a # b => s[a] # s[b]}

IsUnder(rel, root) == Len(rel) > Len(root) /\ SubSeq(rel, 1, Len(root)) = root

\* os.walk's dirs and files for the directory root (names)
SubDirs(root) ==
    {f.rel[Len(root) + 1] : f \in {g \in tree : IsUnder(g.rel, root) /\ Len(g.rel) > Len(root) + 1}}

FilesIn(root) ==
    {f.rel[Len(root) + 1] : f \in {g \in tree : IsUnder(g.rel, root) /\ Len(g.rel) = Len(root) + 1}}

base_path == resolve(argv.directory)

exclude_patterns == argv.exclude

----------------------------------------------------------------------------
\* process_directory: the walk

\* faulty variant of prune_dir: only the relative path is matched, not the bare name
prune_dir_rel_only(root_path, d) ==
    LET rel_path == StrPath(Append(root_path, d))
    IN \/ startswith(d, ".")
       \/ matches_any(rel_path, exclude_patterns)
       \/ matches_any(<<".", "/">> \o rel_path, exclude_patterns)

\* the condition under which the directory d of root_path is removed from dirs
prune_dir(root_path, d) ==
    LET rel_path == StrPath(Append(root_path, d))
    IN \/ startswith(d, ".")
       \/ matches_any(d, exclude_patterns)
       \/ matches_any(rel_path, exclude_patterns)
       \/ matches_any(<<".", "/">> \o rel_path, exclude_patterns)

\* dirs after "for d in dirs_to_remove: dirs.remove(d)"
RECURSIVE remaining_dirs(_, _)
remaining_dirs(root_path, dirs) ==
    IF dirs = <<>> THEN <<>>
    ELSE (IF prune_dir(root_path, Head(dirs)) THEN <<>> ELSE <<Head(dirs)>>)
         \o remaining_dirs(root_path, Tail(dirs))

\* faulty variant of select_file: the exclude patterns are matched on the name only
select_file_name_only(root_path, file) ==
    /\ matches_any(file, include_patterns)
    /\ ~matches_any(file, exclude_patterns)

\* faulty variant of select_file: hidden files are skipped like hidden directories
select_file_skip_hidden(root_path, file) ==
    LET rel_path_str == StrPath(Append(root_path, file))
    IN /\ ~startswith(file, ".")
       /\ matches_any(file, include_patterns)
       /\ ~(\/ matches_any(file, exclude_patterns)
            \/ matches_any(rel_path_str, exclude_patterns))

\* the condition under which the file of root_path is appended to files_found
select_file(root_path, file) ==
    LET rel_path_str == StrPath(Append(root_path, file))
    IN /\ matches_any(file, include_patterns)
       /\ ~(\/ matches_any(file, exclude_patterns)
            \/ matches_any(rel_path_str, exclude_patterns))

\* what "for file in files" appends to files_found
RECURSIVE collect(_, _)
collect(root_path, files) ==
    IF files = <<>> THEN <<>>
    ELSE (IF select_file(root_path, Head(files))
          THEN << [full_path |-> base_path \o Append(root_path, Head(files)),
                   rel_path |-> Append(root_path, Head(files))] >>
          ELSE <<>>)
         \o collect(root_path, Tail(files))

\* os.walk descends into what is left of dirs, in order, before the next sibling
RECURSIVE descend(_, _)
descend(root_path, dirs) ==
    IF dirs = <<>> THEN <<>>
    ELSE <<Append(root_path, Head(dirs))>> \o descend(root_path, Tail(dirs))

\* faulty variant of sort_files: the list is left in the order of the walk
sort_none(found) == found

\* files_found.sort(key=lambda x: x[1]): a stable sort on the relative Path
RECURSIVE insert_sorted(_, _)
insert_sorted(x, sorted) ==
    IF sorted = <<>> THEN <<x>>
    ELSE IF PathLess(x.rel_path, Head(sorted).rel_path)
         THEN <<x>> \o sorted
         ELSE <<Head(sorted)>> \o insert_sorted(x, Tail(sorted))

RECURSIVE sort_files(_)
sort_files(found) ==
    IF found = <<>> THEN <<>>
    ELSE insert_sorted(found[Len(found)], sort_files(SubSeq(found, 1, Len(found) - 1)))

----------------------------------------------------------------------------
\* process_directory: the output

print(s) == s \o <<NL>>

\* the file of the tree at full_path
FileAt(full_path) == CHOOSE f \in tree : base_path \o f.rel = full_path

\* str(e) for the OSError open() raises on an unreadable file
ErrorText(full_path) ==
    <<"[Errno 13] Permission denied: ", "'", "/">> \o StrPath(full_path) \o <<"'">>

\* faulty variant of separator: the separator follows the last block too
separator_always(k) == print(<<>>) \o print(<<"---">>) \o print(<<>>)

\* "if i < len(files_found) - 1", k being the 1-based position i + 1
separator(k) ==
    IF k < Len(files_found) THEN print(<<>>) \o print(<<"---">>) \o print(<<>>) ELSE <<>>

fence(lang_hint) == IF lang_hint = "" THEN <<Fence>> ELSE <<Fence, lang_hint>>

\* what the try body prints for entry k when open() and read() succeed
block_ok(k) ==
    LET rel_path == files_found[k].rel_path
        content == FileAt(files_found[k].full_path).content
    IN print(<<"### ">> \o StrPath(rel_path))
       \o print(<<>>)
       \o print(fence(get_language_hint(rel_path)))
       \o print(content)
       \o (IF ~endswith(content, NL) THEN print(<<>>) ELSE <<>>)
       \o print(<<Fence>>)
       \o separator(k)

\* what the except branch prints on standard output for entry k
block_error(k) ==
    print(<<Fence>>)
    \o print(<<"[Error reading file: ">> \o ErrorText(files_found[k].full_path) \o <<"]">>)
    \o print(<<Fence>>)
    \o separator(k)

\* what the except branch prints on standard error for entry k
diagnostic(k) ==
    print(<<"Error reading ">> \o StrPath(files_found[k].rel_path) \o <<": ">>
          \o ErrorText(files_found[k].full_path))

----------------------------------------------------------------------------
\* Actions

Init ==
    /\ tree \in Trees
    /\ argv \in [directory : Directories, patterns : PatternArgs, exclude : ExcludeArgs]
    /\ pc = "main"
    /\ include_patterns = <<>>
    /\ stack = <<>>
    /\ files_found = <<>>
    /\ i = 0
    /\ stdout = <<>>
    /\ stderr = <<>>
    /\ exitCode = -1
    /\ blockStart = <<>>
    /\ run = 1
    /\ prevOut = <<>>

\* faulty variant of parse_patterns: the pieces are not stripped
parse_patterns_nostrip(arg) == split(arg, ",")

\* patterns = [p.strip() for p in args.patterns.split(',')]
parse_patterns(arg) ==
    LET parts == split(arg, ",") IN [k \in 1..Len(parts) |-> strip(parts[k])]

\* "if not patterns or all(not p for p in patterns)"
no_patterns(patterns) ==
    patterns = <<>> \/ \A k \in 1..Len(patterns) : patterns[k] = <<>>

\* main: the directory is not a directory
MainInvalidDirectory ==
    /\ pc = "main"
    /\ ~isdir(expanduser(argv.directory))
    /\ stderr' = stderr \o print(<<"Error: ">> \o expanduser(argv.directory)
                                 \o <<" is not a valid directory">>)
    /\ exitCode' = 1
    /\ pc' = "exit"
    /\ UNCHANGED <<tree, argv, include_patterns, stack, files_found, i, stdout,
                   blockStart, run, prevOut>>

\* main: no include pattern is left
MainNoPatterns ==
    /\ pc = "main"
    /\ isdir(expanduser(argv.directory))
    /\ no_patterns(parse_patterns(argv.patterns))
    /\ stderr' = stderr \o print(<<"Error: No patterns specified">>)
    /\ exitCode' = 1
    /\ pc' = "exit"
    /\ UNCHANGED <<tree, argv, include_patterns, stack, files_found, i, stdout,
                   blockStart, run, prevOut>>

\* main calls process_directory, which starts os.walk at base_path
MainProcess ==
    /\ pc = "main"
    /\ isdir(expanduser(argv.directory))
    /\ ~no_patterns(parse_patterns(argv.patterns))
    /\ include_patterns' = parse_patterns(argv.patterns)
    /\ files_found' = <<>>
    /\ stack' = << <<>> >>
    /\ pc' = "walk"
    /\ UNCHANGED <<tree, argv, i, stdout, stderr, exitCode, blockStart, run, prevOut>>

\* one iteration of "for root, dirs, files in os.walk(base_path)"
WalkDirectory ==
    /\ pc = "walk"
    /\ stack # <<>>
    /\ LET root_path == Head(stack) IN
       \E dirs \in Perms(SubDirs(root_path)), files \in Perms(FilesIn(root_path)) :
          /\ stack' = descend(root_path, remaining_dirs(root_path, dirs)) \o Tail(stack)
          /\ files_found' = files_found \o collect(root_path, files)
    /\ UNCHANGED <<tree, argv, pc, include_patterns, i, stdout, stderr, exitCode,
                   blockStart, run, prevOut>>

\* the walk is over: files_found.sort(...)
SortFiles ==
    /\ pc = "walk"
    /\ stack = <<>>
    /\ files_found' = sort_files(files_found)
    /\ i' = 0
    /\ pc' = "emit"
    /\ UNCHANGED <<tree, argv, include_patterns, stack, stdout, stderr, exitCode,
                   blockStart, run, prevOut>>

\* one iteration of the output loop, the file is read
EmitFile ==
    /\ pc = "emit"
    /\ i < Len(files_found)
    /\ FileAt(files_found[i + 1].full_path).readable
    /\ stdout' = stdout \o block_ok(i + 1)
    /\ blockStart' = Append(blockStart, Len(stdout))
    /\ i' = i + 1
    /\ UNCHANGED <<tree, argv, pc, include_patterns, stack, files_found, stderr,
                   exitCode, run, prevOut>>

\* faulty variant of EmitError: the first unreadable file ends the run
EmitErrorAborts ==
    /\ pc = "emit"
    /\ i < Len(files_found)
    /\ ~FileAt(files_found[i + 1].full_path).readable
    /\ stderr' = stderr \o diagnostic(i + 1)
    /\ exitCode' = 1
    /\ pc' = "exit"
    /\ UNCHANGED <<tree, argv, include_patterns, stack, files_found, i, stdout,
                   blockStart, run, prevOut>>

\* one iteration of the output loop, open() raises
EmitError ==
    /\ pc = "emit"
    /\ i < Len(files_found)
    /\ ~FileAt(files_found[i + 1].full_path).readable
    /\ stderr' = stderr \o diagnostic(i + 1)
    /\ stdout' = stdout \o block_error(i + 1)
    /\ blockStart' = Append(blockStart, Len(stdout))
    /\ i' = i + 1
    /\ UNCHANGED <<tree, argv, pc, include_patterns, stack, files_found, exitCode,
                   run, prevOut>>

\* the loop is over: process_directory and main return
Finish ==
    /\ pc = "emit"
    /\ i = Len(files_found)
    /\ exitCode' = 0
    /\ pc' = "done"
    /\ UNCHANGED <<tree, argv, include_patterns, stack, files_found, i, stdout, stderr,
                   blockStart, run, prevOut>>

\* the tool is run again on the unchanged tree with the same arguments
RunAgain ==
    /\ pc \in {"done", "exit"}
    /\ run < MaxRuns
    /\ prevOut' = stdout
    /\ run' = run + 1
    /\ pc' = "main"
    /\ include_patterns' = <<>>
    /\ stack' = <<>>
    /\ files_found' = <<>>
    /\ i' = 0
    /\ stdout' = <<>>
    /\ stderr' = <<>>
    /\ exitCode' = -1
    /\ blockStart' = <<>>
    /\ UNCHANGED <<tree, argv>>

Next ==
    \/ MainInvalidDirectory
    \/ MainNoPatterns
    \/ MainProcess
    \/ WalkDirectory
    \/ SortFiles
    \/ EmitFile
    \/ EmitError
    \/ Finish
    \/ RunAgain

Spec == Init /\ [][Next]_vars

----------------------------------------------------------------------------
\* What the properties speak of

\* the bare name of a path
BareName(rel) == rel[Len(rel)]

\* the relative path of the k-th collected file
RelOf(k) == files_found[k].rel_path

\* the k-th collected file can be read
Readable(k) == FileAt(files_found[k].full_path).readable

\* the number of blocks written so far
Emitted == Len(blockStart)

\* the part of standard output written by the k-th iteration of the output loop
Segment(k) ==
    SubSeq(stdout, blockStart[k] + 1,
           IF k < Len(blockStart) THEN blockStart[k + 1] ELSE Len(stdout))

IsPrefix(s, t) == Len(s) <= Len(t) /\ SubSeq(t, 1, Len(s)) = s

IsSuffix(s, t) == Len(s) <= Len(t) /\ SubSeq(t, Len(t) - Len(s) + 1, Len(t)) = s

\* how many elements of s equal x
Count(s, x) == Cardinality({k \in 1..Len(s) : s[k] = x})

\* some exclude pattern matches the text
Vetoed(text) == \E k \in 1..Len(argv.exclude) : fnmatch(text, argv.exclude[k])

\* the directory rel (relative to the scan root) is skipped by the walk
PrunedDir(rel) ==
    \/ BareName(rel)[1] = "."
    \/ Vetoed(BareName(rel))
    \/ Vetoed(StrPath(rel))
    \/ Vetoed(<<".", "/">> \o StrPath(rel))

\* some directory on the way from the scan root to the file is skipped
UnderPruned(rel) == \E n \in 1..(Len(rel) - 1) : PrunedDir(SubSeq(rel, 1, n))

\* the file's bare name matches an include pattern
Included(rel) ==
    \E k \in 1..Len(include_patterns) : fnmatch(BareName(rel), include_patterns[k])

\* the files the walk has to collect
Eligible ==
    {f.rel : f \in {g \in tree : /\ ~UnderPruned(g.rel)
                                 /\ Included(g.rel)
                                 /\ ~Vetoed(BareName(g.rel))
                                 /\ ~Vetoed(StrPath(g.rel))}}

Separator == <<NL, "---", NL, NL>>

----------------------------------------------------------------------------
\* Properties

\* C1: every file block written belongs to a file whose bare name matches an
\* include pattern, whose bare name matches no exclude pattern and whose
\* relative path (joined by "/") matches no exclude pattern.
C1_EmittedFilesSelected ==
    \A k \in 1..Emitted :
        /\ Included(RelOf(k))
        /\ ~Vetoed(BareName(RelOf(k)))
        /\ ~Vetoed(StrPath(RelOf(k)))

\* a run has ended with a block written while a file of the tree, in a directory
\* that was visited, matched an include pattern and was vetoed by its path only
C1_Witness ==
    /\ pc = "done"
    /\ Emitted >= 1
    /\ \E f \in tree : /\ ~UnderPruned(f.rel)
                       /\ Included(f.rel)
                       /\ ~Vetoed(BareName(f.rel))
                       /\ Vetoed(StrPath(f.rel))

\* the relative paths as whole strings, by code point
StringOrdered(k) == StrLess(StrPath(RelOf(k)), StrPath(RelOf(k + 1)))

\* string order with the separator "/" ranked below every other character
RECURSIVE SepFirstLess(_, _)
SepFirstLess(s, t) ==
    IF t = <<>> THEN FALSE
    ELSE IF s = <<>> THEN TRUE
    ELSE IF Head(s) # Head(t)
         THEN Head(s) = "/" \/ (Head(t) # "/" /\ Ord(Head(s)) < Ord(Head(t)))
    ELSE SepFirstLess(Tail(s), Tail(t))

\* C2 as stated: the blocks are in strictly ascending order of relative path,
\* the paths compared as whole "/"-joined strings by code point.
C2_StringOrder == \A k \in 1..(Emitted - 1) : StringOrdered(k)

\* C2 as amended: the blocks are in strictly ascending order of relative path,
\* the paths compared name by name (the "/" separator ranks below every
\* character of a name, so a directory's files precede a sibling whose name
\* extends the directory's name).
C2_ComponentOrder ==
    \A k \in 1..(Emitted - 1) : SepFirstLess(StrPath(RelOf(k)), StrPath(RelOf(k + 1)))

\* a run has ended with two consecutive blocks that the two orders rank differently
C2_Witness ==
    /\ pc = "done"
    /\ \E k \in 1..(Emitted - 1) : ~StringOrdered(k)

\* C3: no file with a block has, on its path below the scan root, a directory
\* whose name begins with ".", whose name matches an exclude pattern, whose
\* relative path matches one, or whose relative path after "./" matches one.
C3_NoPrunedAncestor == \A k \in 1..Emitted : ~UnderPruned(RelOf(k))

\* a run has ended with a block written while the tree held a file that matches
\* an include pattern two levels down, in a directory excluded by its bare name only
C3_Witness ==
    /\ pc = "done"
    /\ Emitted >= 1
    /\ \E f \in tree : /\ Len(f.rel) = 3
                       /\ Included(f.rel)
                       /\ Vetoed(f.rel[2])
                       /\ ~Vetoed(StrPath(SubSeq(f.rel, 1, 2)))
                       /\ ~PrunedDir(SubSeq(f.rel, 1, 1))

\* C4: once the walk is over the collected files are exactly the files of the
\* tree with no pruned directory above them, a name matching an include pattern
\* and no veto on name or relative path, each once; and at the end of the run
\* each has one block.
C4_SelectionComplete ==
    /\ pc \in {"emit", "done"} =>
          /\ {RelOf(k) : k \in 1..Len(files_found)} = Eligible
          /\ Len(files_found) = Cardinality(Eligible)
          /\ \A j, k \in 1..Len(files_found) :
                 j # k => files_found[j].full_path # files_found[k].full_path
    /\ pc = "done" => Emitted = Len(files_found)

\* a run has ended with several blocks, one of them for a file whose name begins with "."
C4_Witness ==
    /\ pc = "done"
    /\ Emitted >= 2
    /\ \E k \in 1..Emitted : BareName(RelOf(k))[1] = "."

\* the placeholder block of the k-th collected file
Placeholder(k) ==
    <<Fence, NL, "[Error reading file: ">> \o ErrorText(files_found[k].full_path)
    \o <<"]", NL, Fence, NL>>

\* standard error holds a line naming the relative path of the k-th collected file
Diagnosed(k) ==
    LET line == <<"Error reading ">> \o StrPath(RelOf(k)) \o <<": ">>
    IN \E n \in 0..Len(stderr) :
          /\ n = 0 \/ stderr[n] = NL
          /\ IsPrefix(line, SubSeq(stderr, n + 1, Len(stderr)))

\* C5: a file whose read fails gets a fenced placeholder block on standard
\* output and a line naming it on standard error; every other file keeps its
\* whole block, in its place; the loop reaches the end of the list and the
\* exit code is 0.
C5_ReadFailureIsolated ==
    /\ \A k \in 1..Emitted :
          IF Readable(k)
          THEN Segment(k) = block_ok(k)
          ELSE /\ IsPrefix(Placeholder(k), Segment(k))
               /\ Diagnosed(k)
    /\ Count(stderr, "Error reading ") = Cardinality({k \in 1..Emitted : ~Readable(k)})
    /\ (exitCode # -1 /\ files_found # <<>>) =>
          /\ exitCode = 0
          /\ Emitted = Len(files_found)

\* a run has ended in which a read failed before the last file and a later file was read
C5_Witness ==
    /\ pc = "done"
    /\ \E j, k \in 1..Emitted : j < k /\ ~Readable(j) /\ Readable(k)

\* C6 as stated: each collected file's part of the output, whether its read
\* succeeded or failed, opens with the heading "### <relative path>", a blank
\* line and the fence; at the end the headings number as many as the files.
C6_HeadingPerFile ==
    /\ \A k \in 1..Emitted :
          IsPrefix(<<"### ">> \o StrPath(RelOf(k)) \o <<NL, NL, Fence>>, Segment(k))
    /\ pc = "done" => Count(stdout, "### ") = Len(files_found)

\* the directory argument names no directory, or the patterns argument holds
\* nothing but commas and whitespace
InvalidArguments ==
    \/ ~isdir(expanduser(argv.directory))
    \/ \A k \in 1..Len(argv.patterns) : argv.patterns[k] \in Whitespace \cup {","}

\* C7: with an invalid directory or an all-blank include list the run writes to
\* standard error, exits non-zero, writes nothing to standard output and never
\* walks or reads; otherwise it walks and emits, and it never exits non-zero.
C7_ValidationPrecedesTraversal ==
    /\ InvalidArguments =>
          /\ pc \in {"main", "exit"}
          /\ stdout = <<>> /\ stack = <<>> /\ files_found = <<>>
          /\ i = 0 /\ blockStart = <<>>
          /\ pc = "exit" => (exitCode = 1 /\ stderr # <<>>)
    /\ ~InvalidArguments =>
          /\ pc # "exit"
          /\ exitCode \in {-1, 0}
          /\ exitCode = 0 => (pc = "done" /\ Emitted = Len(files_found))

\* a run on an existing directory has exited on a patterns argument of blanks and commas
C7_Witness ==
    /\ pc = "exit"
    /\ isdir(expanduser(argv.directory))
    /\ argv.patterns # <<>>
    /\ tree # {}

\* C8: a separator follows every block but the last of the list, whichever
\* way the block was produced, so a run of n files writes max(0, n - 1) of them.
C8_SeparatorCount ==
    /\ \A k \in 1..Emitted :
          /\ IsSuffix(Separator, Segment(k)) <=> k < Len(files_found)
          /\ k = Len(files_found) => IsSuffix(<<Fence, NL>>, Segment(k))
    /\ Count(stdout, "---") =
          (IF Emitted < Len(files_found) THEN Emitted
           ELSE IF Emitted = 0 THEN 0 ELSE Emitted - 1)

\* a run has ended with several blocks, the last one a placeholder, another one read
C8_Witness ==
    /\ pc = "done"
    /\ Emitted >= 2
    /\ ~Readable(Emitted)
    /\ \E k \in 1..Emitted : Readable(k)

\* what the k-th iteration wrote after the opening fence line and the content
AfterContent(k) ==
    LET content == FileAt(files_found[k].full_path).content
        opening == <<"### ">> \o StrPath(RelOf(k)) \o <<NL, NL>>
                   \o fence(get_language_hint(RelOf(k))) \o <<NL>>
    IN SubSeq(Segment(k), Len(opening) + Len(content) + 1, Len(Segment(k)))

\* C9 as stated: a file that was read gets the opening fence line with its
\* language tag, its content unchanged, then the closing fence; between content
\* and closing fence there are added newlines if and only if the content does
\* not end in a newline (nothing is added to content that ends in one).
C9_FencedBlock ==
    \A k \in 1..Emitted : Readable(k) =>
        LET content == FileAt(files_found[k].full_path).content
            opening == <<"### ">> \o StrPath(RelOf(k)) \o <<NL, NL>>
                       \o fence(get_language_hint(RelOf(k))) \o <<NL>>
            rest == AfterContent(k)
        IN /\ IsPrefix(opening \o content, Segment(k))
           /\ \E n \in 0..Len(rest) :
                 /\ \A j \in 1..n : rest[j] = NL
                 /\ SubSeq(rest, n + 1, Len(rest)) = <<Fence, NL>> \o separator(k)
                 /\ n = 0 <=> endswith(content, NL)

\* C10: a second run on the same tree with the same arguments writes the same
\* standard output as the first, whatever the order in which the walk lists
\* the entries of each directory.
C10_Deterministic ==
    (run > 1 /\ pc \in {"done", "exit"}) => stdout = prevOut

\* a second run has ended with several blocks, the scan root holding several entries
C10_Witness ==
    /\ run > 1
    /\ pc = "done"
    /\ Emitted >= 2
    /\ Cardinality(FilesIn(<<>>)) + Cardinality(SubDirs(<<>>)) >= 2

====
